---- MODULE Spec2Model ----
(***************************************************************************)
(* A model of src/config/dynamic.ts: the PluginConfig store of one plugin, *)
(* its subscribers, its persistence write-back and its projection to the   *)
(* front end.                                                              *)
(*                                                                         *)
(* JavaScript objects are functions from a finite set of own keys to       *)
(* values; a missing key reads as Undefined.  Objects that can be reached  *)
(* through more than one reference live in heap, so that aliasing and      *)
(* copying are different things.  Every call leaves, in trace, the ordered *)
(* list of what it did to its collaborators (subscriber invocations, menu, *)
(* persistence, pushes to the front end), and in last the call itself.     *)
(* The registry holds the store registered for the plugin; a store that an *)
(* earlier construction made for the same plugin is kept beside it.        *)
(***************************************************************************)
EXTENDS Integers, Sequences, FiniteSets, TLC

VARIABLES
    heap,            \* the objects: config (this.config), defaultConfig, copy
    inTable,         \* defaultConfig.plugins[name] exists (and is heap.defaultConfig)
    subscribers,     \* this.subscribers: field name -> callback
    allSubscribers,  \* this.allSubscribers
    enableFront,     \* this.enableFront
    handlers,        \* channels with an ipcMain.handle handler
    listeners,       \* channels with an ipcMain.on listener
    persisted,       \* what the persistence backend holds for this plugin
    held,            \* the object the caller was last handed, and by which method
    requested,       \* the front end's subscription requests: field names, "*" for all
    activePlugins,   \* the registry: plugin name -> the store registered for it
    earlier,         \* the store constructed before the registered one, if any
    last,            \* the last call: operation, arguments, result, error
    trace            \* what the last call did to its collaborators, in order

vars == <<heap, inTable, subscribers, allSubscribers, enableFront, handlers,
          listeners, persisted, held, requested, activePlugins, earlier, last, trace>>

-----------------------------------------------------------------------------
(* Bounds and input domains *)

MaxAllSubscribers == 2
MaxPatchLen == 2
MaxStores == 3

Keys == {"a", "b"}
Values == {"v1", "v2"}
Undefined == "undefined"
JsValues == Values \cup {Undefined}

name == "P"

-----------------------------------------------------------------------------
(* Objects *)

EmptyObj == [k \in {} |-> Undefined]

\* obj[key]
Prop(obj, key) == IF key \in DOMAIN obj THEN obj[key] ELSE Undefined

\* obj[key] = value
SetKey(obj, key, value) ==
    [k \in (DOMAIN obj) \cup {key} |-> IF k = key THEN value ELSE obj[k]]

\* { ...a, ...b }
Spread(a, b) ==
    [k \in (DOMAIN a) \cup (DOMAIN b) |-> IF k \in DOMAIN b THEN b[k] ELSE a[k]]

\* an optional object: initialOptions, getOptions(name), defaultConfig.plugins[name]
Absent == [present |-> FALSE, obj |-> EmptyObj]
Some(obj) == [present |-> TRUE, obj |-> obj]

-----------------------------------------------------------------------------
(* Callbacks and the events of a call *)

NoCb == [kind |-> "none", id |-> ""]
\* the functions callers pass to subscribe
LocalCallbacks == {[kind |-> "local", id |-> i] : i \in {"c1", "c2"}}
\* the function the n-th subscribeAll call passes: a new one each time
AllCallback(n) == [kind |-> "local", id |-> ToString(n)]

\* the callback setupFront's subscribe listener registers for valueName
FrontCallback(valueName) == [kind |-> "front", id |-> valueName]
\* the callback setupFront's subscribe-all listener registers
FrontAllCallback == [kind |-> "frontAll", id |-> ""]

Channel(suffix) == <<name, "config", suffix>>
ChangedChannel(valueName) == <<name, "config-changed", valueName>>
ChangedAllChannel == <<name, "config-changed">>
NoChannel == <<>>

\* an event of a call; depth counts the subscriber invocations it is inside
\* of (0 for what the call does itself)
Ev(ev, cb, role, key, val, obj, chan) ==
    [ev |-> ev, cb |-> cb, role |-> role, key |-> key, val |-> val, obj |-> obj,
     chan |-> chan, depth |-> 0]

\* fn(value) for a per-key subscriber: a local callback is called; the front
\* callback does sendToFront(`${name}-config-changed-${valueName}`, value)
InvokeKey(cb, valueName, value) ==
    IF cb.kind = "front"
    THEN Ev("push", cb, "key", cb.id, value, EmptyObj, ChangedChannel(cb.id))
    ELSE Ev("call", cb, "key", valueName, value, EmptyObj, NoChannel)

\* fn(this.config) for an all-subscriber
InvokeAll(cb, cfg) ==
    IF cb.kind = "frontAll"
    THEN Ev("push", cb, "all", "", Undefined, cfg, ChangedAllChannel)
    ELSE Ev("call", cb, "all", "", Undefined, cfg, NoChannel)

\* setOptions(this.name, this.config)
SaveEv(cfg) == Ev("save", NoCb, "", "", Undefined, cfg, NoChannel)
\* setMenuOptions(this.name, this.config)
MenuEv(cfg) == Ev("menu", NoCb, "", "", Undefined, cfg, NoChannel)

-----------------------------------------------------------------------------
(* JavaScript values passed as setAll's argument: what typeof gives, whether  *)
(* the value is truthy, and for an object its own entries in order.           *)

JsNumber == [jstype |-> "number", truthy |-> TRUE, entries |-> <<>>]
JsString == [jstype |-> "string", truthy |-> TRUE, entries |-> <<>>]
JsNull == [jstype |-> "object", truthy |-> FALSE, entries |-> <<>>]
JsUndefined == [jstype |-> "undefined", truthy |-> FALSE, entries |-> <<>>]
JsObject(entries) == [jstype |-> "object", truthy |-> TRUE, entries |-> entries]

NonObjects == {JsNumber, JsString, JsNull, JsUndefined}

Entry == [key : Keys, value : JsValues]

\* Object.entries(options) of the objects passed: own keys are distinct
Patches ==
    {p \in UNION {[1..n -> Entry] : n \in 0..MaxPatchLen} :
        \A i, j \in DOMAIN p : i # j => p[i].key # p[j].key}

-----------------------------------------------------------------------------
(* The methods of PluginConfig, as functions of the store they act on.  Each  *)
(* gives the config object after the call and the events of the call.         *)

\* private save()
Save(cfg) == <<SaveEv(cfg)>>

\* for (const fn of this.allSubscribers) fn(this.config)
FanOut(all, cfg) == [i \in 1..Len(all) |-> InvokeAll(all[i], cfg)]

\* private onChange(valueName, single = true)
OnChange(cfg, subs, all, valueName, single) ==
    (IF subs[valueName] # NoCb
     THEN <<InvokeKey(subs[valueName], valueName, Prop(cfg, valueName))>>
     ELSE <<>>)
    \o (IF single THEN FanOut(all, cfg) ELSE <<>>)

\* set that persists before it assigns
SetEffectSaveFirst(cfg, subs, all, key, value) ==
    LET c == SetKey(cfg, key, value)
    IN  [config |-> c,
         trace |-> Save(cfg) \o OnChange(c, subs, all, key, TRUE),
         error |-> ""]

\* set that notifies before it assigns
SetEffectNotifyFirst(cfg, subs, all, key, value) ==
    LET c == SetKey(cfg, key, value)
    IN  [config |-> c,
         trace |-> OnChange(cfg, subs, all, key, TRUE) \o Save(c),
         error |-> ""]

\* set(key, value)
SetEffect(cfg, subs, all, key, value) ==
    LET c == SetKey(cfg, key, value)
    IN  [config |-> c,
         trace |-> OnChange(c, subs, all, key, TRUE) \o Save(c),
         error |-> ""]

\* the guard without its test for a falsy argument
NotAnObjectTypeofOnly(options) == options.jstype # "object"

\* the guard of setAll: !options || typeof options !== 'object'
NotAnObject(options) == ~options.truthy \/ options.jstype # "object"

\* a loop that assigns whatever value differs, undefined too
RECURSIVE SetAllLoopStoringUndefined(_, _, _, _, _)
SetAllLoopStoringUndefined(entries, i, cfg, subs, all) ==
    IF i > Len(entries)
    THEN [config |-> cfg, trace |-> <<>>, changed |-> FALSE]
    ELSE LET key == entries[i].key
             value == entries[i].value
         IN  IF Prop(cfg, key) # value
             THEN LET c == SetKey(cfg, key, value)
                      rest == SetAllLoopStoringUndefined(entries, i + 1, c, subs, all)
                  IN  [config |-> rest.config,
                       trace |-> OnChange(c, subs, all, key, FALSE) \o rest.trace,
                       changed |-> TRUE]
             ELSE SetAllLoopStoringUndefined(entries, i + 1, cfg, subs, all)

\* the loop of setAll over Object.entries(options), from entry i on
RECURSIVE SetAllLoop(_, _, _, _, _)
SetAllLoop(entries, i, cfg, subs, all) ==
    IF i > Len(entries)
    THEN [config |-> cfg, trace |-> <<>>, changed |-> FALSE]
    ELSE LET key == entries[i].key
             value == entries[i].value
         IN  IF Prop(cfg, key) # value
             THEN LET c == IF value # Undefined THEN SetKey(cfg, key, value) ELSE cfg
                      rest == SetAllLoop(entries, i + 1, c, subs, all)
                  IN  [config |-> rest.config,
                       trace |-> OnChange(c, subs, all, key, FALSE) \o rest.trace,
                       changed |-> TRUE]
             ELSE SetAllLoop(entries, i + 1, cfg, subs, all)

\* setAll that fans out to the all-subscribers whether or not anything changed
SetAllEffectAlwaysFanOut(cfg, subs, all, options) ==
    IF NotAnObject(options)
    THEN [config |-> cfg, trace |-> <<>>, error |-> "Options must be an object."]
    ELSE LET r == SetAllLoop(options.entries, 1, cfg, subs, all)
         IN  [config |-> r.config,
              trace |-> r.trace \o FanOut(all, r.config) \o Save(r.config),
              error |-> ""]

\* setAll(options)
SetAllEffect(cfg, subs, all, options) ==
    IF NotAnObject(options)
    THEN [config |-> cfg, trace |-> <<>>, error |-> "Options must be an object."]
    ELSE LET r == SetAllLoop(options.entries, 1, cfg, subs, all)
         IN  [config |-> r.config,
              trace |-> r.trace
                        \o (IF r.changed THEN FanOut(all, r.config) ELSE <<>>)
                        \o Save(r.config),
              error |-> ""]

\* setAndMaybeRestart that ends with save(), as set does
SetAndMaybeRestartEffectSaving(cfg, subs, all, key, value) ==
    LET c == SetKey(cfg, key, value)
    IN  [config |-> c,
         trace |-> <<MenuEv(c)>> \o OnChange(c, subs, all, key, TRUE) \o Save(c),
         error |-> ""]

\* setAndMaybeRestart(key, value)
SetAndMaybeRestartEffect(cfg, subs, all, key, value) ==
    LET c == SetKey(cfg, key, value)
    IN  [config |-> c,
         trace |-> <<MenuEv(c)>> \o OnChange(c, subs, all, key, TRUE),
         error |-> ""]

\* subscribe that keeps the callback a field already has
SubscribeEffectKeepFirst(subs, valueName, fn) ==
    IF subs[valueName] # NoCb THEN subs ELSE [subs EXCEPT ![valueName] = fn]

\* subscribe(valueName, fn)
SubscribeEffect(subs, valueName, fn) == [subs EXCEPT ![valueName] = fn]

\* subscribeAll(fn)
SubscribeAllEffect(all, fn) == Append(all, fn)

\* getAll that returns this.config itself
GetAllEffectAlias(h) == [ref |-> "config", heap |-> h]

\* getAll(): { ...this.config }, a new object
GetAllEffect(h) ==
    [ref |-> "copy", heap |-> [h EXCEPT !.copy = Spread(EmptyObj, h.config)]]

\* get(key): this.config?.[key]
get(key) == Prop(heap.config, key)

\* getDefaultConfig(): this.defaultConfig itself
GetDefaultConfigEffect(h) == [ref |-> "defaultConfig", heap |-> h]

-----------------------------------------------------------------------------
(* The methods again, with subscribers that call back into the store.  A     *)
(* subscriber runs inside the call that invokes it, so what it does to the   *)
(* store is done before the next statement of that call.                     *)

\* what the subscribers that call back write
CallbackValue == "v2"
\* fn = () => { if (config.get(key) !== 'v2') config.set(key, 'v2') }
SetCallback(key) == [kind |-> "set", id |-> key]
\* fn = () => config.setAll({ [key]: 'v2' })
SetAllCallback(key) == [kind |-> "setAll", id |-> key]

\* the events of a call made from inside a subscriber
Nest(events) == [i \in DOMAIN events |-> [events[i] EXCEPT !.depth = @ + 1]]

\* the one element of a singleton: in The({e(r) : r \in {call}}) the call is
\* made once, and r is its result
The(S) == CHOOSE x \in S : TRUE

RECURSIVE Invoke(_, _, _, _, _)
RECURSIVE FanOutFrom(_, _, _, _)
RECURSIVE OnChangeCalling(_, _, _, _, _)
RECURSIVE SetCalling(_, _, _, _, _)
RECURSIVE SetAllLoopCalling(_, _, _, _, _)
RECURSIVE SetAllCalling(_, _, _, _)

\* fn(...) with the event ev that records the invocation: the config object
\* when fn returns, and ev followed by the events of what fn called
Invoke(fn, ev, cfg, subs, all) ==
    IF fn.kind = "set" /\ Prop(cfg, fn.id) # CallbackValue
    THEN The({[config |-> r.config, trace |-> <<ev>> \o Nest(r.trace)] :
                r \in {SetCalling(cfg, subs, all, fn.id, CallbackValue)}})
    ELSE IF fn.kind = "setAll"
    THEN The({[config |-> r.config, trace |-> <<ev>> \o Nest(r.trace)] :
                r \in {SetAllCalling(cfg, subs, all,
                          JsObject(<<[key |-> fn.id, value |-> CallbackValue]>>))}})
    ELSE [config |-> cfg, trace |-> <<ev>>]

\* a fan-out that hands every all-subscriber a copy made at its start
RECURSIVE FanOutHanding(_, _, _, _, _)
FanOutHanding(all, i, cfg, subs, snapshot) ==
    IF i > Len(all)
    THEN [config |-> cfg, trace |-> <<>>]
    ELSE The({The({[config |-> rest.config, trace |-> r.trace \o rest.trace] :
                     rest \in {FanOutHanding(all, i + 1, r.config, subs, snapshot)}}) :
                r \in {Invoke(all[i], InvokeAll(all[i], snapshot), cfg, subs, all)}})

FanOutFromSnapshot(all, i, cfg, subs) == FanOutHanding(all, i, cfg, subs, cfg)

\* for (const fn of this.allSubscribers) fn(this.config), from the i-th on
FanOutFrom(all, i, cfg, subs) ==
    IF i > Len(all)
    THEN [config |-> cfg, trace |-> <<>>]
    ELSE The({The({[config |-> rest.config, trace |-> r.trace \o rest.trace] :
                     rest \in {FanOutFrom(all, i + 1, r.config, subs)}}) :
                r \in {Invoke(all[i], InvokeAll(all[i], cfg), cfg, subs, all)}})

\* private onChange(valueName, single = true): k is the call of the per-key
\* subscriber, f the fan-out
OnChangeCalling(cfg, subs, all, valueName, single) ==
    The({The({[config |-> f.config, trace |-> k.trace \o f.trace] :
                f \in {IF single THEN FanOutFrom(all, 1, k.config, subs)
                       ELSE [config |-> k.config, trace |-> <<>>]}}) :
           k \in {IF subs[valueName] # NoCb
                  THEN Invoke(subs[valueName],
                              InvokeKey(subs[valueName], valueName, Prop(cfg, valueName)),
                              cfg, subs, all)
                  ELSE [config |-> cfg, trace |-> <<>>]}})

\* set that saves the object as it was when set assigned to it
SetCallingSavingAssigned(cfg, subs, all, key, value) ==
    The({[config |-> n.config, trace |-> n.trace \o Save(SetKey(cfg, key, value)),
          error |-> ""] :
           n \in {OnChangeCalling(SetKey(cfg, key, value), subs, all, key, TRUE)}})

\* set(key, value)
SetCalling(cfg, subs, all, key, value) ==
    The({[config |-> n.config, trace |-> n.trace \o Save(n.config), error |-> ""] :
           n \in {OnChangeCalling(SetKey(cfg, key, value), subs, all, key, TRUE)}})

\* the loop of setAll from entry i on
SetAllLoopCalling(entries, i, cfg, subs, all) ==
    IF i > Len(entries)
    THEN [config |-> cfg, trace |-> <<>>, changed |-> FALSE]
    ELSE LET key == entries[i].key
             value == entries[i].value
         IN  IF Prop(cfg, key) # value
             THEN LET c == IF value # Undefined THEN SetKey(cfg, key, value) ELSE cfg
                  IN  The({The({[config |-> rest.config,
                                 trace |-> n.trace \o rest.trace,
                                 changed |-> TRUE] :
                                  rest \in {SetAllLoopCalling(entries, i + 1, n.config,
                                                              subs, all)}}) :
                             n \in {OnChangeCalling(c, subs, all, key, FALSE)}})
             ELSE SetAllLoopCalling(entries, i + 1, cfg, subs, all)

\* setAll(options)
SetAllCalling(cfg, subs, all, options) ==
    IF NotAnObject(options)
    THEN [config |-> cfg, trace |-> <<>>, error |-> "Options must be an object."]
    ELSE The({The({[config |-> f.config,
                    trace |-> r.trace \o f.trace \o Save(f.config),
                    error |-> ""] :
                     f \in {IF r.changed THEN FanOutFrom(all, 1, r.config, subs)
                            ELSE [config |-> r.config, trace |-> <<>>]}}) :
                r \in {SetAllLoopCalling(options.entries, 1, cfg, subs, all)}})

\* setAndMaybeRestart(key, value)
SetAndMaybeRestartCalling(cfg, subs, all, key, value) ==
    The({[config |-> n.config,
          trace |-> <<MenuEv(SetKey(cfg, key, value))>> \o n.trace,
          error |-> ""] :
           n \in {OnChangeCalling(SetKey(cfg, key, value), subs, all, key, TRUE)}})

-----------------------------------------------------------------------------
(* The collaborators *)

\* The persistence backend: setOptions(name, config) stores the object it is given
SavesOf(events) == SelectSeq(events, LAMBDA e : e.ev = "save")

PersistedAfter(p, events) ==
    LET saves == SavesOf(events)
    IN  IF saves = <<>> THEN p ELSE Some(saves[Len(saves)].obj)

\* setOptions(this.name, this.config) fails: it throws and stores nothing
ThrowEv(cfg) == Ev("throw", NoCb, "", "", Undefined, cfg, NoChannel)
SaveError == "setOptions threw"

\* a call that undoes its assignments when its save throws
SaveThrowsRollingBack(cfg, r) ==
    [config |-> cfg,
     trace |-> SubSeq(r.trace, 1, Len(r.trace) - 1) \o <<ThrowEv(r.config)>>,
     error |-> SaveError]

\* a set or setAll call on the config object cfg that would have had effect
\* r, when the setOptions call of its final save() throws: save() is the last
\* statement, nothing catches, and the exception leaves through the call
SaveThrows(cfg, r) ==
    [config |-> r.config,
     trace |-> SubSeq(r.trace, 1, Len(r.trace) - 1) \o <<ThrowEv(r.config)>>,
     error |-> SaveError]

-----------------------------------------------------------------------------
(* Construction *)

\* Object.entries(this) when the constructor calls setupFront: the instance's
\* own properties with the typeof of each value.  The methods are properties
\* of the prototype and are not among them.  The order is the order in which
\* the properties were created, which depends on how the build emits class
\* fields: the two initialised fields first and then the four the constructor
\* assigns, or all six in the order of their declarations.
OwnProperty(fnName, jstype) == [fnName |-> fnName, jstype |-> jstype]

OwnEntries ==
    { << OwnProperty("subscribers", "object"), OwnProperty("allSubscribers", "object"),
         OwnProperty("name", "string"), OwnProperty("enableFront", "boolean"),
         OwnProperty("defaultConfig", "object"), OwnProperty("config", "object") >>,
      << OwnProperty("name", "string"), OwnProperty("config", "object"),
         OwnProperty("defaultConfig", "object"), OwnProperty("enableFront", "boolean"),
         OwnProperty("subscribers", "object"), OwnProperty("allSubscribers", "object") >> }

\* x in ignoredMethods, for the array ['subscribe', 'subscribeAll']: the in
\* operator tests the array's property names, not its elements
InIgnoredMethods(x) == x \in {"0", "1", "length"}

\* the for loop of setupFront from entry i on: the channels handled so far,
\* and whether the loop left setupFront by its return
RECURSIVE SetupFrontLoop(_, _, _)
SetupFrontLoop(entries, i, acc) ==
    IF i > Len(entries)
    THEN [handlers |-> acc, returned |-> FALSE]
    ELSE IF entries[i].jstype # "function" \/ InIgnoredMethods(entries[i].fnName)
         THEN [handlers |-> acc, returned |-> TRUE]
         ELSE SetupFrontLoop(entries, i + 1, acc \cup {Channel(entries[i].fnName)})

\* private setupFront()
SetupFront(entries) ==
    LET r == SetupFrontLoop(entries, 1, {})
    IN  [handlers |-> r.handlers,
         listeners |-> IF r.returned
                       THEN {}
                       ELSE {Channel("subscribe"), Channel("subscribe-all")}]

\* the record of a call: the method, the store it was called on (the number
\* of its construction), its arguments (key, val, opts, cb, and for the
\* constructor init, options.initialOptions), the channel it came through,
\* the error it raised, and for subscribe the callback replaced
NoCall == [op |-> "new", store |-> 1, key |-> "", val |-> Undefined, opts |-> JsUndefined,
           init |-> Absent, cb |-> NoCb, prev |-> NoCb, chan |-> NoChannel, error |-> ""]

\* the registry before any store is constructed: const activePlugins = {}
NoPlugins == [p \in {} |-> 0]

\* a registration that leaves the entry a plugin already has
RegisterKeepFirst(registry, plugin, store) ==
    IF plugin \in DOMAIN registry
    THEN registry
    ELSE [p \in (DOMAIN registry) \cup {plugin} |-> store]

\* activePlugins[name] = this
Register(registry, plugin, store) ==
    [p \in (DOMAIN registry) \cup {plugin} |-> IF p = plugin THEN store ELSE registry[p]]

\* isActive(plugin)
isActive(plugin) == plugin \in DOMAIN activePlugins

\* no store was constructed before the registered one
NoStore == [present |-> FALSE, store |-> 0, config |-> EmptyObj,
            subscribers |-> [k \in Keys |-> NoCb], allSubscribers |-> <<>>]

\* a construction whose defaults win over the overrides
ConstructEffectDefaultsWin(tableEntry, initialOptions, stored, front, entries) ==
    LET pluginDefaultConfig == IF tableEntry.present THEN tableEntry.obj ELSE EmptyObj
        pluginConfig == IF initialOptions.present THEN initialOptions.obj
                        ELSE IF stored.present THEN stored.obj
                        ELSE EmptyObj
        projected == IF front THEN SetupFront(entries)
                     ELSE [handlers |-> {}, listeners |-> {}]
    IN  [config |-> Spread(pluginConfig, pluginDefaultConfig),
         defaultConfig |-> pluginDefaultConfig,
         subscribers |-> [k \in Keys |-> NoCb],
         allSubscribers |-> <<>>,
         enableFront |-> front,
         handlers |-> projected.handlers,
         listeners |-> projected.listeners]

\* a construction that installs the two subscribe listeners whatever
\* enableFront is
ConstructEffectListening(tableEntry, initialOptions, stored, front, entries) ==
    LET pluginDefaultConfig == IF tableEntry.present THEN tableEntry.obj ELSE EmptyObj
        pluginConfig == IF initialOptions.present THEN initialOptions.obj
                        ELSE IF stored.present THEN stored.obj
                        ELSE EmptyObj
    IN  [config |-> Spread(pluginDefaultConfig, pluginConfig),
         defaultConfig |-> pluginDefaultConfig,
         subscribers |-> [k \in Keys |-> NoCb],
         allSubscribers |-> <<>>,
         enableFront |-> front,
         handlers |-> {},
         listeners |-> {Channel("subscribe"), Channel("subscribe-all")}]

\* the body of the constructor, with tableEntry = defaultConfig.plugins[name],
\* stored = getOptions(name) and entries = Object.entries(this): the fields of
\* the new store and what setupFront registered
ConstructEffect(tableEntry, initialOptions, stored, front, entries) ==
    LET pluginDefaultConfig == IF tableEntry.present THEN tableEntry.obj ELSE EmptyObj
        pluginConfig == IF initialOptions.present THEN initialOptions.obj
                        ELSE IF stored.present THEN stored.obj
                        ELSE EmptyObj
        projected == IF front THEN SetupFront(entries)
                     ELSE [handlers |-> {}, listeners |-> {}]
    IN  [config |-> Spread(pluginDefaultConfig, pluginConfig),
         defaultConfig |-> pluginDefaultConfig,
         subscribers |-> [k \in Keys |-> NoCb],
         allSubscribers |-> <<>>,
         enableFront |-> front,
         handlers |-> projected.handlers,
         listeners |-> projected.listeners]

\* new PluginConfig(name, { enableFront: front, initialOptions }) as the first
\* store of the process
Construct(tableEntry, initialOptions, stored, front, entries) ==
    LET s == ConstructEffect(tableEntry, initialOptions, stored, front, entries)
    IN  /\ heap = [config |-> s.config,
                   defaultConfig |-> s.defaultConfig,
                   copy |-> EmptyObj]
        /\ inTable = tableEntry.present
        /\ subscribers = s.subscribers
        /\ allSubscribers = s.allSubscribers
        /\ enableFront = s.enableFront
        /\ handlers = s.handlers
        /\ listeners = s.listeners
        /\ persisted = stored
        /\ held = [ref |-> "none", from |-> ""]
        /\ requested = {}
        /\ activePlugins = Register(NoPlugins, name, 1)
        /\ earlier = NoStore
        /\ last = [NoCall EXCEPT !.init = initialOptions]
        /\ trace = <<>>

\* the objects with fields among Keys, and an object or none
ConfigObjects == UNION {[d -> Values] : d \in SUBSET Keys}
Optional(objects) == {Absent} \cup {Some(o) : o \in objects}

TableEntries == {Absent, Some([k \in {"a"} |-> "v1"])}
InitialOptions == {Absent, Some([k \in {"b"} |-> "v2"])}
StoredOptions == {Absent, Some([k \in {"a"} |-> "v2"])}

-----------------------------------------------------------------------------
(* The calls *)

\* a call on the registered store
Call(op, key, val, opts, cb, chan, error) ==
    [op |-> op, store |-> activePlugins[name], key |-> key, val |-> val, opts |-> opts,
     init |-> Absent, cb |-> cb, prev |-> NoCb, chan |-> chan, error |-> error]

\* a mutating method ran with effect r
Mutated(r) ==
    /\ heap' = [heap EXCEPT !.config = r.config]
    /\ trace' = r.trace
    /\ persisted' = PersistedAfter(persisted, r.trace)
    /\ UNCHANGED <<activePlugins, earlier, requested, inTable, subscribers,
                   allSubscribers, enableFront, handlers, listeners, held>>

Set(key, value) ==
    LET r == SetEffect(heap.config, subscribers, allSubscribers, key, value)
    IN  /\ Mutated(r)
        /\ last' = Call("set", key, value, JsUndefined, NoCb, NoChannel, r.error)

SetAll(options) ==
    LET r == SetAllEffect(heap.config, subscribers, allSubscribers, options)
    IN  /\ Mutated(r)
        /\ last' = Call("setAll", "", Undefined, options, NoCb, NoChannel, r.error)

SetAndMaybeRestart(key, value) ==
    LET r == SetAndMaybeRestartEffect(heap.config, subscribers, allSubscribers, key, value)
    IN  /\ Mutated(r)
        /\ last' = Call("setAndMaybeRestart", key, value, JsUndefined, NoCb, NoChannel, r.error)

Subscribe(valueName, fn) ==
    /\ subscribers' = SubscribeEffect(subscribers, valueName, fn)
    /\ last' = [Call("subscribe", valueName, Undefined, JsUndefined, fn, NoChannel, "")
                   EXCEPT !.prev = subscribers[valueName]]
    /\ trace' = <<>>
    /\ UNCHANGED <<activePlugins, earlier, requested, heap, inTable, allSubscribers,
                   enableFront, handlers, listeners, persisted, held>>

SubscribeAll(fn) ==
    /\ Len(allSubscribers) < MaxAllSubscribers
    /\ allSubscribers' = SubscribeAllEffect(allSubscribers, fn)
    /\ last' = Call("subscribeAll", "", Undefined, JsUndefined, fn, NoChannel, "")
    /\ trace' = <<>>
    /\ UNCHANGED <<activePlugins, earlier, requested, heap, inTable, subscribers,
                   enableFront, handlers, listeners, persisted, held>>

GetAll ==
    LET r == GetAllEffect(heap)
    IN  /\ heap' = r.heap
        /\ held' = [ref |-> r.ref, from |-> "getAll"]
        /\ last' = Call("getAll", "", Undefined, JsUndefined, NoCb, NoChannel, "")
        /\ trace' = <<>>
        /\ UNCHANGED <<activePlugins, earlier, requested, inTable, subscribers,
                       allSubscribers, enableFront, handlers, listeners, persisted>>

GetDefaultConfig ==
    LET r == GetDefaultConfigEffect(heap)
    IN  /\ heap' = r.heap
        /\ held' = [ref |-> r.ref, from |-> "getDefaultConfig"]
        /\ last' = Call("getDefaultConfig", "", Undefined, JsUndefined, NoCb, NoChannel, "")
        /\ trace' = <<>>
        /\ UNCHANGED <<activePlugins, earlier, requested, inTable, subscribers,
                       allSubscribers, enableFront, handlers, listeners, persisted>>

\* the caller assigns to a field of the object it was last handed
CallerMutate(key, value) ==
    /\ held.ref # "none"
    /\ heap' = [heap EXCEPT ![held.ref] = SetKey(@, key, value)]
    /\ last' = Call("mutate", key, value, JsUndefined, NoCb, NoChannel, "")
    /\ trace' = <<>>
    /\ UNCHANGED <<activePlugins, earlier, requested, inTable, subscribers,
                   allSubscribers, enableFront, handlers, listeners, persisted, held>>

\* set(key, value) with a backend that fails
SetSaveThrows(key, value) ==
    LET r == SaveThrows(heap.config,
                        SetEffect(heap.config, subscribers, allSubscribers, key, value))
    IN  /\ Mutated(r)
        /\ last' = Call("set", key, value, JsUndefined, NoCb, NoChannel, r.error)

\* setAll(options) with a backend that fails
SetAllSaveThrows(options) ==
    LET r == SaveThrows(heap.config,
                        SetAllEffect(heap.config, subscribers, allSubscribers, options))
    IN  /\ ~NotAnObject(options)
        /\ Mutated(r)
        /\ last' = Call("setAll", "", Undefined, options, NoCb, NoChannel, r.error)

\* the same calls on a store whose subscribers may call back into it
SetWithCallbacks(key, value) ==
    LET r == SetCalling(heap.config, subscribers, allSubscribers, key, value)
    IN  /\ Mutated(r)
        /\ last' = Call("set", key, value, JsUndefined, NoCb, NoChannel, r.error)

SetAllWithCallbacks(options) ==
    LET r == SetAllCalling(heap.config, subscribers, allSubscribers, options)
    IN  /\ Mutated(r)
        /\ last' = Call("setAll", "", Undefined, options, NoCb, NoChannel, r.error)

SetAndMaybeRestartWithCallbacks(key, value) ==
    LET r == SetAndMaybeRestartCalling(heap.config, subscribers, allSubscribers, key, value)
    IN  /\ Mutated(r)
        /\ last' = Call("setAndMaybeRestart", key, value, JsUndefined, NoCb, NoChannel, r.error)

-----------------------------------------------------------------------------
(* A second store for the same plugin.  The constructor runs again: the new  *)
(* store takes the place of the registered one, which its holder keeps       *)
(* using.  Both save under the same plugin name.                             *)

\* new PluginConfig(name, { enableFront: front, initialOptions }) while a store
\* of the plugin exists: defaultConfig.plugins[name] is the object the table
\* holds now and getOptions(name) is what the backend holds now
ConstructAgain(initialOptions, front, entries) ==
    LET s == ConstructEffect(IF inTable THEN Some(heap.defaultConfig) ELSE Absent,
                             initialOptions, persisted, front, entries)
        n == activePlugins[name] + 1
    IN  /\ n <= MaxStores
        /\ earlier' = [present |-> TRUE, store |-> activePlugins[name],
                       config |-> heap.config, subscribers |-> subscribers,
                       allSubscribers |-> allSubscribers]
        /\ heap' = [heap EXCEPT !.config = s.config, !.defaultConfig = s.defaultConfig]
        /\ subscribers' = s.subscribers
        /\ allSubscribers' = s.allSubscribers
        /\ enableFront' = s.enableFront
        /\ handlers' = handlers \cup s.handlers
        /\ listeners' = listeners \cup s.listeners
        /\ activePlugins' = Register(activePlugins, name, n)
        /\ last' = [NoCall EXCEPT !.store = n, !.init = initialOptions]
        /\ trace' = <<>>
        /\ UNCHANGED <<inTable, persisted, held, requested>>

\* a call on the earlier store
EarlierCall(op, key, val, opts, cb) ==
    [Call(op, key, val, opts, cb, NoChannel, "") EXCEPT !.store = earlier.store]

\* a mutating method ran on the earlier store with effect r
EarlierMutated(r) ==
    /\ earlier.present
    /\ earlier' = [earlier EXCEPT !.config = r.config]
    /\ trace' = r.trace
    /\ persisted' = PersistedAfter(persisted, r.trace)
    /\ UNCHANGED <<heap, inTable, subscribers, allSubscribers, enableFront, handlers,
                   listeners, held, requested, activePlugins>>

EarlierSet(key, value) ==
    LET r == SetEffect(earlier.config, earlier.subscribers, earlier.allSubscribers,
                       key, value)
    IN  /\ EarlierMutated(r)
        /\ last' = EarlierCall("set", key, value, JsUndefined, NoCb)

EarlierSetAll(options) ==
    LET r == SetAllEffect(earlier.config, earlier.subscribers, earlier.allSubscribers,
                          options)
    IN  /\ EarlierMutated(r)
        /\ last' = [EarlierCall("setAll", "", Undefined, options, NoCb)
                       EXCEPT !.error = r.error]

EarlierSetAndMaybeRestart(key, value) ==
    LET r == SetAndMaybeRestartEffect(earlier.config, earlier.subscribers,
                                      earlier.allSubscribers, key, value)
    IN  /\ EarlierMutated(r)
        /\ last' = EarlierCall("setAndMaybeRestart", key, value, JsUndefined, NoCb)

EarlierSubscribe(valueName, fn) ==
    /\ earlier.present
    /\ earlier' = [earlier EXCEPT
                       !.subscribers = SubscribeEffect(earlier.subscribers, valueName, fn)]
    /\ last' = [EarlierCall("subscribe", valueName, Undefined, JsUndefined, fn)
                   EXCEPT !.prev = earlier.subscribers[valueName]]
    /\ trace' = <<>>
    /\ UNCHANGED <<heap, inTable, subscribers, allSubscribers, enableFront, handlers,
                   listeners, persisted, held, requested, activePlugins>>

EarlierSubscribeAll(fn) ==
    /\ earlier.present
    /\ Len(earlier.allSubscribers) < MaxAllSubscribers
    /\ earlier' = [earlier EXCEPT
                       !.allSubscribers = SubscribeAllEffect(earlier.allSubscribers, fn)]
    /\ last' = EarlierCall("subscribeAll", "", Undefined, JsUndefined, fn)
    /\ trace' = <<>>
    /\ UNCHANGED <<heap, inTable, subscribers, allSubscribers, enableFront, handlers,
                   listeners, persisted, held, requested, activePlugins>>

-----------------------------------------------------------------------------
(* The front end's side of the transport *)

RemoteOps == {"get", "set", "getAll", "setAll", "getDefaultConfig", "setAndMaybeRestart"}

\* ipcRenderer.invoke(`${name}-config-${op}`, key, value).  With no handler on
\* the channel the request is rejected.  A handler registered by setupFront is
\* (_, ...args) => fn(...args): it calls the method without a receiver, and the
\* method throws a TypeError on its first use of this.
RemoteInvoke(op, key, value) ==
    /\ last' = Call("invoke", key, value, JsUndefined, NoCb, Channel(op),
                    IF Channel(op) \in handlers THEN "TypeError" ELSE "No handler registered")
    /\ trace' = <<>>
    /\ UNCHANGED <<activePlugins, earlier, requested, heap, inTable, subscribers,
                   allSubscribers, enableFront, handlers, listeners, persisted, held>>

\* ipcRenderer.send(`${name}-config-subscribe`, valueName): the listener, if
\* setupFront registered one, subscribes the front callback of valueName
RemoteSubscribe(valueName) ==
    /\ subscribers' = IF Channel("subscribe") \in listeners
                      THEN SubscribeEffect(subscribers, valueName, FrontCallback(valueName))
                      ELSE subscribers
    /\ requested' = requested \cup {valueName}
    /\ last' = Call("send", valueName, Undefined, JsUndefined, NoCb,
                    Channel("subscribe"), "")
    /\ trace' = <<>>
    /\ UNCHANGED <<activePlugins, earlier, heap, inTable, allSubscribers, enableFront,
                   handlers, listeners, persisted, held>>

\* ipcRenderer.send(`${name}-config-subscribe-all`)
RemoteSubscribeAll ==
    /\ Channel("subscribe-all") \in listeners => Len(allSubscribers) < MaxAllSubscribers
    /\ allSubscribers' = IF Channel("subscribe-all") \in listeners
                         THEN SubscribeAllEffect(allSubscribers, FrontAllCallback)
                         ELSE allSubscribers
    /\ requested' = requested \cup {"*"}
    /\ last' = Call("send", "", Undefined, JsUndefined, NoCb,
                    Channel("subscribe-all"), "")
    /\ trace' = <<>>
    /\ UNCHANGED <<activePlugins, earlier, heap, inTable, subscribers, enableFront,
                   handlers, listeners, persisted, held>>

-----------------------------------------------------------------------------
(* Specifications *)

\* The store of a plugin with a Default Table entry, used in process
Init ==
    \E i \in InitialOptions, s \in StoredOptions, e \in OwnEntries :
        Construct(Some([k \in {"a"} |-> "v1"]), i, s, FALSE, e)

Next ==
    \/ \E key \in Keys, value \in JsValues : Set(key, value)
    \/ \E p \in Patches : SetAll(JsObject(p))
    \/ \E o \in NonObjects : SetAll(o)
    \/ \E key \in Keys, value \in JsValues : SetAndMaybeRestart(key, value)
    \/ \E valueName \in Keys, fn \in LocalCallbacks : Subscribe(valueName, fn)
    \/ SubscribeAll(AllCallback(Len(allSubscribers) + 1))

Spec == Init /\ [][Next]_vars

\* The store constructed with or without projection to the front end, used
\* from the front end and in process
InitFront ==
    \E f \in BOOLEAN, e \in OwnEntries :
        Construct(Some([k \in {"a"} |-> "v1"]), Absent, Absent, f, e)

FrontPatches == {p \in Patches : Len(p) <= 1}

NextFront ==
    \/ \E op \in RemoteOps, key \in Keys : RemoteInvoke(op, key, "v2")
    \/ \E valueName \in Keys : RemoteSubscribe(valueName)
    \/ RemoteSubscribeAll
    \/ \E key \in Keys, value \in JsValues : Set(key, value)
    \/ \E p \in FrontPatches : SetAll(JsObject(p))
    \/ \E key \in Keys, value \in JsValues : SetAndMaybeRestart(key, value)

SpecFront == InitFront /\ [][NextFront]_vars

\* The store and a caller that keeps and modifies the objects it is handed
NextAlias ==
    \/ GetAll
    \/ GetDefaultConfig
    \/ \E key \in Keys, value \in Values : CallerMutate(key, value)
    \/ \E key \in Keys, value \in JsValues : Set(key, value)

SpecAlias == Init /\ [][NextAlias]_vars

\* Stores of the same plugin constructed one after the other, the registered
\* one and the one before it both in use
RegistryCallbacks == {[kind |-> "local", id |-> "c1"]}
RegistryPatches == {p \in Patches : Len(p) = 1 /\ p[1].key = "b"}

NextRegistry ==
    \/ \E e \in OwnEntries : ConstructAgain(Absent, FALSE, e)
    \/ Set("a", "v2")
    \/ \E p \in RegistryPatches : SetAll(JsObject(p))
    \/ SetAndMaybeRestart("a", "v1")
    \/ \E fn \in RegistryCallbacks : Subscribe("a", fn)
    \/ SubscribeAll(AllCallback(Len(allSubscribers) + 1))
    \/ EarlierSet("a", "v2")
    \/ \E p \in RegistryPatches : EarlierSetAll(JsObject(p))
    \/ EarlierSetAndMaybeRestart("a", "v1")
    \/ \E fn \in RegistryCallbacks : EarlierSubscribe("a", fn)
    \/ EarlierSubscribeAll(AllCallback(Len(earlier.allSubscribers) + 1))

InitRegistry ==
    \E e \in OwnEntries : Construct(Some([k \in {"a"} |-> "v1"]), Absent, Absent, FALSE, e)

SpecRegistry == InitRegistry /\ [][NextRegistry]_vars

\* The store constructed without projection, used in process while the front
\* end sends its subscription requests
NextLocal ==
    \/ \E key \in Keys, value \in Values : Set(key, value)
    \/ \E p \in RegistryPatches : SetAll(JsObject(p))
    \/ \E key \in Keys : SetAndMaybeRestart(key, "v1")
    \/ \E valueName \in Keys, fn \in RegistryCallbacks : Subscribe(valueName, fn)
    \/ SubscribeAll(AllCallback(Len(allSubscribers) + 1))
    \/ \E valueName \in Keys : RemoteSubscribe(valueName)
    \/ RemoteSubscribeAll
    \/ \E op \in RemoteOps : RemoteInvoke(op, "a", "v2")

SpecLocal == InitRegistry /\ [][NextLocal]_vars

\* The store with a backend whose save may fail
NextFailing ==
    \/ \E key \in Keys, value \in Values : Set(key, value)
    \/ \E key \in Keys, value \in Values : SetSaveThrows(key, value)
    \/ \E p \in Patches : SetAllSaveThrows(JsObject(p))
    \/ \E valueName \in Keys, fn \in RegistryCallbacks : Subscribe(valueName, fn)
    \/ SubscribeAll(AllCallback(Len(allSubscribers) + 1))

SpecFailing == Init /\ [][NextFailing]_vars

\* The store with subscribers that call set and setAll on it while they run
CallingCallbacks == {SetCallback("b"), SetAllCallback("a")}

NextCalling ==
    \/ \E key \in Keys, value \in Values : SetWithCallbacks(key, value)
    \/ \E p \in FrontPatches : SetAllWithCallbacks(JsObject(p))
    \/ SetAllWithCallbacks(JsNull)
    \/ \E key \in Keys : SetAndMaybeRestartWithCallbacks(key, "v1")
    \/ \E valueName \in Keys : Subscribe(valueName, SetCallback("b"))
    \/ \E fn \in CallingCallbacks \cup RegistryCallbacks : SubscribeAll(fn)

SpecCalling == InitRegistry /\ [][NextCalling]_vars

\* The constructor on every Default Table entry, initialOptions and stored
\* options, and again for the same plugin
InitConstruct ==
    \E t \in Optional(ConfigObjects), i \in Optional(ConfigObjects),
       s \in Optional(ConfigObjects), f \in BOOLEAN, e \in OwnEntries :
        Construct(t, i, s, f, e)

NextConstruct ==
    \E i \in Optional(ConfigObjects), f \in BOOLEAN, e \in OwnEntries : ConstructAgain(i, f, e)

SpecConstruct == InitConstruct /\ [][NextConstruct]_vars

-----------------------------------------------------------------------------
(* Properties *)

Mutators == {"set", "setAll", "setAndMaybeRestart"}

Pushes(events) == SelectSeq(events, LAMBDA e : e.ev = "push")
Menus(events) == SelectSeq(events, LAMBDA e : e.ev = "menu")
\* the invocations of subscribers, local or front
Notifications(events) == SelectSeq(events, LAMBDA e : e.ev \in {"call", "push"})
KeyNotifications(events) == SelectSeq(events, LAMBDA e : e.role = "key")
AllNotifications(events) == SelectSeq(events, LAMBDA e : e.role = "all")

\* C1: once set(k, v) has returned, get(k) returns v, and the call made exactly
\* one save call, whose argument is the full live object with k mapped to v
\* (which is then what the backend holds).
C1_SetThenGet ==
    last.op = "set" =>
        /\ get(last.key) = last.val
        /\ Len(SavesOf(trace)) = 1
        /\ SavesOf(trace)[1].obj = heap.config
        /\ last.key \in DOMAIN SavesOf(trace)[1].obj
        /\ SavesOf(trace)[1].obj[last.key] = last.val
        /\ persisted = Some(heap.config)

\* a set of a key with a subscriber, with an all-subscriber registered
C1_Witness ==
    /\ last.op = "set"
    /\ last.val = "v2"
    /\ subscribers[last.key] # NoCb
    /\ allSubscribers # <<>>
    /\ Len(trace) >= 3
    /\ get(last.key) = "v2"

\* C2: with projection enabled, a request on "P-config-set" with (k, v) leaves
\* the live object and the persisted object as a local set(k, v) from the same
\* state leaves them, and sends the same pushes.
C2_RemoteSetAsLocal ==
    [][(enableFront /\ last'.op = "invoke" /\ last'.chan = Channel("set")) =>
          LET r == SetEffect(heap.config, subscribers, allSubscribers,
                             last'.key, last'.val)
          IN  /\ heap'.config = r.config
              /\ persisted' = PersistedAfter(persisted, r.trace)
              /\ Pushes(trace') = Pushes(r.trace)]_vars

\* C3: a store constructed with projection enabled has a request handler on
\* "P-config-<op>" for get, set, getAll, setAll, getDefaultConfig and
\* setAndMaybeRestart, and none for subscribe and subscribeAll.
C3_HandlersRegistered ==
    enableFront =>
        /\ \A op \in RemoteOps : Channel(op) \in handlers
        /\ Channel("subscribe") \notin handlers
        /\ Channel("subscribeAll") \notin handlers

\* C4: with projection enabled, after a request on "P-config-subscribe" for
\* field f every change of f by set, setAll or setAndMaybeRestart sends a push
\* on "P-config-changed-f" with the new value of f; after a request on
\* "P-config-subscribe-all" every change sends a push on "P-config-changed"
\* with the whole live object.
C4_PushAfterRemoteSubscribe ==
    [][(enableFront /\ last'.op \in Mutators /\ last'.error = "") =>
          /\ \A f \in requested \cap Keys :
                Prop(heap'.config, f) # Prop(heap.config, f) =>
                    \E i \in DOMAIN trace' :
                        /\ trace'[i].ev = "push"
                        /\ trace'[i].chan = ChangedChannel(f)
                        /\ trace'[i].val = Prop(heap'.config, f)
          /\ ("*" \in requested /\ heap'.config # heap.config) =>
                \E i \in DOMAIN trace' :
                    /\ trace'[i].ev = "push"
                    /\ trace'[i].chan = ChangedAllChannel
                    /\ trace'[i].obj = heap'.config]_vars

\* the keys of a patch whose value differs from the stored one
Differing(cfg, entries) ==
    {entries[i].key : i \in {j \in DOMAIN entries : Prop(cfg, entries[j].key) # entries[j].value}}
\* the fields whose value is not the same in the two objects
ChangedKeys(old, new) == {k \in Keys : Prop(old, k) # Prop(new, k)}
\* the fields whose per-key subscriber the events invoke
NotifiedKeys(events) == {events[i].key : i \in {j \in DOMAIN events : events[j].role = "key"}}

\* every all-subscriber is invoked exactly once, in order, with the object cfg
AllInvokedOnceWith(events, all, cfg) ==
    LET calls == AllNotifications(events)
    IN  /\ Len(calls) = Len(all)
        /\ \A i \in DOMAIN calls : calls[i].cb = all[i] /\ calls[i].obj = cfg

\* C5: in a setAll(patch) call in which some patch key differs from its stored
\* value, the per-key subscriber is invoked for each key whose value changes
\* and for no key whose value stays the same, every all-subscriber is invoked
\* exactly once, with the live object that holds every update of the patch,
\* and save is called exactly once.
C5_SetAllNotifiesChanged ==
    [][(last'.op = "setAll" /\ last'.error = ""
            /\ Differing(heap.config, last'.opts.entries) # {}) =>
          LET changed == ChangedKeys(heap.config, heap'.config)
          IN  /\ \A k \in changed : subscribers[k] # NoCb => k \in NotifiedKeys(trace')
              /\ NotifiedKeys(trace') \subseteq changed
              /\ AllInvokedOnceWith(trace', allSubscribers, heap'.config)
              /\ Len(SavesOf(trace')) = 1]_vars

\* C6: setAll with an empty patch, or one whose every entry equals the stored
\* value, invokes no subscriber, leaves the live object as it is and calls
\* save exactly once.
C6_SetAllNoDifference ==
    [][(last'.op = "setAll" /\ last'.opts \notin NonObjects
            /\ Differing(heap.config, last'.opts.entries) = {}) =>
          /\ last'.error = ""
          /\ Notifications(trace') = <<>>
          /\ heap'.config = heap.config
          /\ Len(SavesOf(trace')) = 1
          /\ SavesOf(trace')[1].obj = heap.config]_vars

\* a two-entry patch on subscribed fields, with an all-subscriber registered,
\* that notified nobody
C6_Witness ==
    /\ last.op = "setAll"
    /\ Len(last.opts.entries) = 2
    /\ \A k \in Keys : subscribers[k] # NoCb
    /\ allSubscribers # <<>>
    /\ Notifications(trace) = <<>>
    /\ Len(SavesOf(trace)) = 1

\* C7: setAll with an argument that is not a mapping (a number, a string,
\* null, undefined) raises an error before anything else happens: live object,
\* subscriber map and all-subscriber list are unchanged, no subscriber is
\* invoked and save is not called.
C7_SetAllRejectsNonMapping ==
    [][(last'.op = "setAll" /\ last'.opts \in NonObjects) =>
          /\ last'.error # ""
          /\ heap' = heap
          /\ subscribers' = subscribers
          /\ allSubscribers' = allSubscribers
          /\ trace' = <<>>
          /\ persisted' = persisted]_vars

\* setAll(null) rejected by a store that has subscribers
C7_Witness ==
    /\ last.op = "setAll"
    /\ last.opts = JsNull
    /\ last.error # ""
    /\ allSubscribers # <<>>
    /\ \E k \in Keys : subscribers[k] # NoCb

\* C8: setAndMaybeRestart(k, v) sets live[k] to v, hands the updated live
\* object to the menu, notifies the per-key subscriber of k and every
\* all-subscriber, and never calls save: the persisted object is the same
\* before and after.
C8_SetAndMaybeRestartNoSave ==
    [][last'.op = "setAndMaybeRestart" =>
          LET keyCalls == KeyNotifications(trace')
          IN  /\ heap'.config = SetKey(heap.config, last'.key, last'.val)
              /\ Len(Menus(trace')) = 1
              /\ Menus(trace')[1].obj = heap'.config
              /\ IF subscribers[last'.key] = NoCb
                 THEN keyCalls = <<>>
                 ELSE /\ Len(keyCalls) = 1
                      /\ keyCalls[1].cb = subscribers[last'.key]
                      /\ keyCalls[1].val = last'.val
              /\ AllInvokedOnceWith(trace', allSubscribers, heap'.config)
              /\ SavesOf(trace') = <<>>
              /\ persisted' = persisted]_vars

\* setAndMaybeRestart notified both kinds of subscriber and left the backend
\* holding an object that is not the live one
C8_Witness ==
    /\ last.op = "setAndMaybeRestart"
    /\ subscribers[last.key] # NoCb
    /\ allSubscribers # <<>>
    /\ Len(Notifications(trace)) >= 2
    /\ persisted.present
    /\ persisted.obj # heap.config

\* C9: a field has at most one per-key subscriber: subscribe(f, c2) takes the
\* place of the callback f had, only subscribe changes the map, a call
\* invokes for a field nothing but the callback the map holds for it, and at
\* most once, and it invokes no callback that the map holds for no field; so
\* the change of f that follows subscribe(f, c1), subscribe(f, c2) invokes c2
\* only, and c1 is not invoked again (unless it is subscribed again).
C9_SubscribeReplaces ==
    [][/\ last'.op = "subscribe" =>
            /\ subscribers'[last'.key] = last'.cb
            /\ last'.prev = subscribers[last'.key]
            /\ \A k \in Keys \ {last'.key} : subscribers'[k] = subscribers[k]
       /\ last'.op # "subscribe" => subscribers' = subscribers
       /\ \A i \in DOMAIN trace' :
            trace'[i].role = "key" =>
                /\ trace'[i].cb = subscribers'[trace'[i].key]
                /\ \A j \in DOMAIN trace' :
                     (trace'[j].role = "key" /\ trace'[j].key = trace'[i].key) => j = i
       /\ \A c \in LocalCallbacks :
            (\A k \in Keys : subscribers'[k] # c) =>
                \A j \in DOMAIN trace' : trace'[j].cb # c
       /\ (/\ last.op = "subscribe"
           /\ last.prev \notin {NoCb, last.cb}
           /\ last'.op \in Mutators
           /\ Prop(heap'.config, last.key) # Prop(heap.config, last.key)) =>
                /\ \E i \in DOMAIN trace' :
                     /\ trace'[i].role = "key"
                     /\ trace'[i].key = last.key
                     /\ trace'[i].cb = last.cb
                /\ \A j \in DOMAIN trace' :
                     (trace'[j].role = "key" /\ trace'[j].key = last.key) =>
                         trace'[j].cb # last.prev]_vars

\* subscribe(f, c2) has just taken the place of another callback, c1
C9_Witness ==
    /\ last.op = "subscribe"
    /\ last.prev \in LocalCallbacks
    /\ last.prev # last.cb
    /\ subscribers[last.key] = last.cb

\* what getAll() returns in the heap h
GetAllResult(h) == LET r == GetAllEffect(h) IN r.heap[r.ref]

\* C10: getAll() returns an object with the fields and values of the live
\* object that is not the live object: a caller's assignment to it changes
\* neither what get(k) returns afterwards nor what getAll() returns afterwards.
C10_GetAllIsACopy ==
    [][/\ last'.op = "getAll" =>
            /\ held'.ref # "config"
            /\ heap'[held'.ref] = heap'.config
            /\ heap'.config = heap.config
       /\ (last'.op = "mutate" /\ held.from = "getAll") =>
            /\ \A k \in Keys : Prop(heap'.config, k) = Prop(heap.config, k)
            /\ GetAllResult(heap') = GetAllResult(heap)]_vars

\* the caller has changed the object getAll handed out, which now differs
\* from the live object
C10_Witness ==
    /\ last.op = "mutate"
    /\ held.from = "getAll"
    /\ heap[held.ref] # heap.config

\* the calls that change a store: its live object or its subscriber lists
StoreOps == Mutators \cup {"subscribe", "subscribeAll"}

\* C11: every construction registers the new store under the plugin name, in
\* place of the one registered before, and nothing else changes the registry
\* or removes an entry; a store constructed earlier keeps working on its own
\* state: set, setAll, setAndMaybeRestart, subscribe or subscribeAll on one of
\* the two stores leaves the live object and the subscriber lists of the
\* other as they were, and set on the earlier store sets its own field.
C11_RegistryLastWinsStoresApart ==
    [][/\ DOMAIN activePlugins \subseteq DOMAIN activePlugins'
       /\ last'.op = "new" =>
            /\ activePlugins'[name] = last'.store
            /\ last'.store > activePlugins[name]
            /\ earlier'.present /\ earlier'.store = activePlugins[name]
            /\ earlier'.config = heap.config
            /\ earlier'.subscribers = subscribers
            /\ earlier'.allSubscribers = allSubscribers
       /\ last'.op # "new" => activePlugins' = activePlugins
       /\ (last'.op \in StoreOps /\ last'.store = activePlugins[name]) =>
            earlier' = earlier
       /\ (last'.op \in StoreOps /\ earlier.present /\ last'.store = earlier.store) =>
            /\ heap' = heap
            /\ subscribers' = subscribers
            /\ allSubscribers' = allSubscribers
       /\ (last'.op = "set" /\ earlier.present /\ last'.store = earlier.store) =>
            /\ earlier'.config = SetKey(earlier.config, last'.key, last'.val)
            /\ \A i \in DOMAIN trace' :
                 trace'[i].role = "key" => trace'[i].cb = earlier.subscribers[last'.key]]_vars

\* two stores of the plugin, each with subscribers of its own; the earlier
\* one was just set and its live object differs from the registered store's
C11_Witness ==
    /\ earlier.present
    /\ activePlugins[name] = 2
    /\ last.op = "set"
    /\ last.store = earlier.store
    /\ Prop(earlier.config, last.key) = last.val
    /\ Prop(heap.config, last.key) # last.val
    /\ earlier.allSubscribers # allSubscribers
    /\ subscribers["a"] # NoCb
    /\ earlier.subscribers["a"] = NoCb

\* the override source of the construction that last ran
OverrideSource ==
    IF last.init.present THEN last.init.obj
    ELSE IF persisted.present THEN persisted.obj
    ELSE EmptyObj

\* C12: a construction never fails, with or without a Default Table entry,
\* and the live object it leaves is the shallow merge of the defaults (empty
\* without an entry) with the override source, which is initialOptions if
\* given, else the stored options, else empty: the fields are those of both,
\* every override field has the override's value, every other field the
\* default's, and without a Default Table entry live is the override source.
C12_ConstructMerges ==
    last.op = "new" =>
        /\ last.error = ""
        /\ isActive(name)
        /\ ~inTable => (heap.defaultConfig = EmptyObj /\ heap.config = OverrideSource)
        /\ DOMAIN heap.config = (DOMAIN heap.defaultConfig) \cup (DOMAIN OverrideSource)
        /\ \A k \in DOMAIN OverrideSource : heap.config[k] = OverrideSource[k]
        /\ \A k \in (DOMAIN heap.defaultConfig) \ (DOMAIN OverrideSource) :
              heap.config[k] = heap.defaultConfig[k]

\* a construction without initialOptions whose stored options override one
\* default, bring a field the defaults lack and leave one default standing
C12_Witness ==
    /\ last.op = "new"
    /\ inTable
    /\ ~last.init.present
    /\ persisted = Some([k \in {"b"} |-> "v1"])
    /\ heap.defaultConfig = [k \in {"a", "b"} |-> "v2"]
    /\ heap.config = [k \in {"a", "b"} |-> IF k = "a" THEN "v2" ELSE "v1"]

\* C13: a set(k, v) call assigns, then notifies, then persists: every
\* subscriber the call invokes is handed the new value (the per-key subscriber
\* v itself, an all-subscriber a live object with live[k] = v), and the one
\* save call comes after every subscriber invocation, with live[k] = v.
C13_SetMutateNotifyPersist ==
    last.op = "set" =>
        /\ trace # <<>>
        /\ trace[Len(trace)].ev = "save"
        /\ Prop(trace[Len(trace)].obj, last.key) = last.val
        /\ \A i \in 1..(Len(trace) - 1) :
              /\ trace[i].ev = "call"
              /\ trace[i].role = "key" => trace[i].val = last.val
              /\ trace[i].role = "all" => Prop(trace[i].obj, last.key) = last.val
        /\ Len(Notifications(trace)) =
              Len(allSubscribers) + (IF subscribers[last.key] # NoCb THEN 1 ELSE 0)

\* a set that invoked the per-key subscriber and two all-subscribers before
\* its save
C13_Witness ==
    /\ last.op = "set"
    /\ last.key = "b"
    /\ last.val = "v1"
    /\ subscribers["b"] # NoCb
    /\ Len(allSubscribers) = 2
    /\ Len(trace) = 4
    /\ trace[4].ev = "save"

\* the subscriber invocations a call makes itself, in order
Top(events) == SelectSeq(events, LAMBDA e : e.depth = 0 /\ e.ev \in {"call", "push"})

\* the events that carry the live object of their moment
CarriesLive(e) == e.ev \in {"save", "menu"} \/ e.role = "all"

\* the live object just before the j-th event of a call that began with the
\* object start: every call that changes it ends with a save of it
LiveBefore(events, j, start) ==
    LET seen == {i \in 1..(j - 1) : CarriesLive(events[i])}
    IN  IF seen = {} THEN start
        ELSE events[CHOOSE i \in seen : \A i2 \in seen : i2 <= i].obj

\* C14: the notification of set and of setAndMaybeRestart on field f invokes
\* first the per-key subscriber of f, if there is one, with the new value,
\* then every all-subscriber once per registration, in the order of the
\* registrations, each with the live object as it is when it is invoked,
\* whatever the subscribers invoked before it did to the store; when the call
\* returns, the notification and all it set off are over.
C14_NotifyKeyThenAllInOrder ==
    [][last'.op \in {"set", "setAndMaybeRestart"} =>
          LET start == SetKey(heap.config, last'.key, last'.val)
              top == Top(trace')
              fn == subscribers[last'.key]
              off == IF fn # NoCb THEN 1 ELSE 0
          IN  /\ Len(top) = off + Len(allSubscribers)
              /\ fn # NoCb =>
                    /\ top[1].role = "key"
                    /\ top[1].cb = fn
                    /\ top[1].val = last'.val
              /\ \A i \in 1..Len(allSubscribers) :
                    /\ top[off + i].role = "all"
                    /\ top[off + i].cb = allSubscribers[i]
              /\ \A j \in DOMAIN trace' :
                    (trace'[j].depth = 0 /\ trace'[j].role = "all") =>
                        trace'[j].obj = LiveBefore(trace', j, start)
              /\ heap'.config = LiveBefore(trace', Len(trace') + 1, start)
              /\ last'.op = "set" =>
                    /\ trace'[Len(trace')].ev = "save"
                    /\ trace'[Len(trace')].depth = 0]_vars

\* a set of a field with a per-key subscriber and two all-subscribers, the
\* second of which was handed an object the first had just changed
C14_Witness ==
    /\ last.op = "set"
    /\ subscribers[last.key] # NoCb
    /\ Len(allSubscribers) = 2
    /\ Len(Top(trace)) = 3
    /\ Top(trace)[2].obj # Top(trace)[3].obj
    /\ Top(trace)[3].obj = heap.config

Throws(events) == SelectSeq(events, LAMBDA e : e.ev = "throw")

\* C15: when the save of a set or setAll call fails, the call ends with that
\* failure, and nothing is undone: the live object is as the call would have
\* left it with a working backend (set's field has the new value, every patch
\* entry that is not the sentinel has its value), the subscribers the call
\* notified are the same, with the same arguments, and the subscriber map and
\* the all-subscriber list are as before the call.
C15_SaveFailureNoRollback ==
    [][(last'.op \in {"set", "setAll"} /\ Throws(trace') # <<>>) =>
          LET r == IF last'.op = "set"
                   THEN SetEffect(heap.config, subscribers, allSubscribers,
                                  last'.key, last'.val)
                   ELSE SetAllEffect(heap.config, subscribers, allSubscribers, last'.opts)
          IN  /\ last'.error = SaveError
              /\ heap'.config = r.config
              /\ last'.op = "set" => Prop(heap'.config, last'.key) = last'.val
              /\ last'.op = "setAll" =>
                    \A i \in DOMAIN last'.opts.entries :
                        last'.opts.entries[i].value # Undefined =>
                            Prop(heap'.config, last'.opts.entries[i].key)
                                = last'.opts.entries[i].value
              /\ Notifications(trace') = Notifications(r.trace)
              /\ subscribers' = subscribers
              /\ allSubscribers' = allSubscribers]_vars

\* a setAll whose save failed after it had changed two fields and notified a
\* per-key subscriber and an all-subscriber; the backend holds something else
C15_Witness ==
    /\ last.op = "setAll"
    /\ last.error = SaveError
    /\ Len(last.opts.entries) = 2
    /\ \A i \in 1..2 : Prop(heap.config, last.opts.entries[i].key) = last.opts.entries[i].value
    /\ Len(KeyNotifications(trace)) >= 1
    /\ Len(AllNotifications(trace)) >= 1
    /\ persisted # Some(heap.config)

\* C16: a setAll(patch) call invokes the all-subscribers (each once, with the
\* live object) if the call changed the value of some field of the live
\* object, and invokes none of them if it changed no field, as with a patch
\* whose differing entries all carry undefined; and every per-key subscriber
\* the call invokes is handed the value its field has after the call.
C16_SetAllFanOutIffChanged ==
    [][(last'.op = "setAll" /\ last'.error = "") =>
          /\ heap'.config # heap.config =>
                AllInvokedOnceWith(trace', allSubscribers, heap'.config)
          /\ heap'.config = heap.config => AllNotifications(trace') = <<>>
          /\ \A i \in DOMAIN trace' :
                trace'[i].role = "key" =>
                    trace'[i].val = Prop(heap'.config, trace'[i].key)]_vars

\* the fields a patch has an entry for
PatchKeys(entries) == {entries[i].key : i \in DOMAIN entries}

\* the field is in both objects with the same value, or in neither
SameField(old, new, k) ==
    /\ (k \in DOMAIN old) = (k \in DOMAIN new)
    /\ Prop(old, k) = Prop(new, k)

\* C17: after setAll(patch) has returned, every field with a patch entry
\* whose value is not undefined has that value, every field with a patch
\* entry whose value is undefined is as before the call (setAll does not
\* store undefined and removes no field), and every field without a patch
\* entry is as before the call.
C17_SetAllFrame ==
    [][(last'.op = "setAll" /\ last'.error = "") =>
          /\ \A i \in DOMAIN last'.opts.entries :
                LET e == last'.opts.entries[i]
                IN  IF e.value # Undefined
                    THEN e.key \in DOMAIN heap'.config /\ heap'.config[e.key] = e.value
                    ELSE SameField(heap.config, heap'.config, e.key)
          /\ \A k \in Keys \ PatchKeys(last'.opts.entries) :
                SameField(heap.config, heap'.config, k)
          /\ DOMAIN heap.config \subseteq DOMAIN heap'.config
          /\ DOMAIN heap'.config \subseteq (DOMAIN heap.config) \cup PatchKeys(last'.opts.entries)]_vars

\* a setAll of two entries that stored the value of one and, the other being
\* undefined, left its field with the value it had
C17_Witness ==
    /\ last.op = "setAll"
    /\ last.error = ""
    /\ last.opts.entries = <<[key |-> "a", value |-> Undefined], [key |-> "b", value |-> "v2"]>>
    /\ heap.config = [k \in {"a", "b"} |-> IF k = "a" THEN "v1" ELSE "v2"]
    /\ Len(KeyNotifications(trace)) = 2

\* what getDefaultConfig() returns in the heap h
GetDefaultConfigResult(h) == LET r == GetDefaultConfigEffect(h) IN r.heap[r.ref]

\* C18: no step changes the defaults of the store: whatever set calls are
\* made and whatever a caller assigns to an object that getAll() or
\* getDefaultConfig() handed out, getDefaultConfig() returns afterwards what
\* it returned before, and the Default Table entry of the plugin, which is
\* the object the store took its defaults from, has the fields it had.
C18_DefaultsNeverChange ==
    [][/\ GetDefaultConfigResult(heap') = GetDefaultConfigResult(heap)
       /\ inTable => heap'.defaultConfig = heap.defaultConfig]_vars

\* C19: when a set or setAll call has returned normally, the object its last
\* save call was given, which is the last thing the call did, is the live
\* object, whatever set and setAll calls its subscribers made meanwhile, and
\* it is what the backend holds; and no call other than setAndMaybeRestart
\* and a call that ends with an error leaves the backend holding something
\* else than the live object when it held the live object before.
C19_SavedIsLiveAfterSet ==
    [][/\ (last'.op \in {"set", "setAll"} /\ last'.error = "") =>
            /\ trace' # <<>>
            /\ trace'[Len(trace')].ev = "save"
            /\ trace'[Len(trace')].depth = 0
            /\ trace'[Len(trace')].obj = heap'.config
            /\ persisted' = Some(heap'.config)
       /\ (persisted = Some(heap.config) /\ persisted' # Some(heap'.config)) =>
            (last'.op = "setAndMaybeRestart" \/ last'.error # "")]_vars

\* a set of field a that returned after a subscriber it invoked had set field
\* b and saved; the last save is the one of the outer call
C19_Witness ==
    /\ last.op = "set"
    /\ last.key = "a"
    /\ last.error = ""
    /\ \E i \in DOMAIN trace :
          /\ trace[i].ev = "save"
          /\ trace[i].depth > 0
          /\ Prop(trace[i].obj, "b") = CallbackValue
    /\ Len(SavesOf(trace)) >= 2
    /\ persisted = Some(heap.config)

\* C20: a store constructed with enableFront false has no request handler
\* and no subscribe listener, its subscribers are the functions callers passed
\* to subscribe and subscribeAll, and none of its calls sends a push to the
\* front end, whatever the front end has requested.
C20_DisabledNoProjection ==
    ~enableFront =>
        /\ handlers = {}
        /\ listeners = {}
        /\ \A k \in Keys : subscribers[k].kind \in {"none", "local"}
        /\ \A i \in DOMAIN allSubscribers : allSubscribers[i].kind = "local"
        /\ Pushes(trace) = <<>>
        /\ last.op = "invoke" => last.error = "No handler registered"

\* the front end has asked for both fields and for all, and a call on the
\* store without projection notified a per-key subscriber and an
\* all-subscriber, both local
C20_Witness ==
    /\ ~enableFront
    /\ requested = {"a", "b", "*"}
    /\ last.op \in Mutators
    /\ Len(KeyNotifications(trace)) = 1
    /\ Len(AllNotifications(trace)) >= 1
    /\ Pushes(trace) = <<>>
    /\ heap.config # heap.defaultConfig

====
